---- MODULE Spec2Model ----
(***************************************************************************)
(* A model of nomina's src/lib.rs: the character-level Markov chain        *)
(* (build_chain, generate_name), the repair step (ensure_complete_name)    *)
(* and the capitalisation helpers.                                         *)
(*                                                                         *)
(* A Rust String is modelled as a sequence of characters; each character   *)
(* is an atom with the number of bytes of its UTF-8 encoding, so that the  *)
(* byte-indexed operations of the source (len, slicing, rfind,             *)
(* split_at_checked) are computed on bytes and the char-indexed ones       *)
(* (chars, take, windows) on characters.                                   *)
(***************************************************************************)
EXTENDS Integers, Sequences, FiniteSets, TLC

VARIABLES names, order, max_len, chain, current, result, i, stop, s, sep, pc, ret

vars == <<names, order, max_len, chain, current, result, i, stop, s, sep, pc, ret>>

(***************************************************************************)
(* Bounds of the model.                                                    *)
(***************************************************************************)
MaxNames == 2
MaxNameLen == 2
MaxOrder == 2
MaxLen == 3
MaxKeys == 2
MaxNexts == 2
MaxBufLen == 4
MaxStrLen == 4
MaxSepLen == 2

(***************************************************************************)
(* Characters.  "e_acute" stands for U+00E9, two bytes in UTF-8; "E_acute" *)
(* for U+00C9; "NUL" for U+0000.                                           *)
(***************************************************************************)
Marker == "^"
Space == " "
Nul == "NUL"

ByteLen(c) == IF c \in {"e_acute", "E_acute"} THEN 2 ELSE 1

CharToLowercase(c) ==
    CASE c = "A" -> "a"
      [] c = "H" -> "h"
      [] c = "E_acute" -> "e_acute"
      [] OTHER -> c

CharToUppercase(c) ==
    CASE c = "a" -> "A"
      [] c = "h" -> "H"
      [] c = "e_acute" -> "E_acute"
      [] OTHER -> c

ToLowercase(str) == [k \in 1..Len(str) |-> CharToLowercase(str[k])]

Repeat(c, n) == [k \in 1..n |-> c]

Range(f) == {f[k] : k \in DOMAIN f}

\* All strings over alphabet A of length lo..hi.
Strings(A, lo, hi) == UNION {[1..n -> A] : n \in lo..hi}

(***************************************************************************)
(* Byte-level view of a string.                                            *)
(***************************************************************************)
RECURSIVE Bytes(_)
Bytes(str) == IF str = <<>> THEN 0 ELSE ByteLen(Head(str)) + Bytes(Tail(str))

\* Byte offset at which the (k+1)-th character starts.
PrefixBytes(str, k) == Bytes(SubSeq(str, 1, k))

IsCharBoundary(str, idx) == \E k \in 0..Len(str) : PrefixBytes(str, k) = idx

CharsBefore(str, idx) == CHOOSE k \in 0..Len(str) : PrefixBytes(str, k) = idx

\* &str[idx..] : defined only when idx is a char boundary (else the slice panics).
SliceFrom(str, idx) == SubSeq(str, CharsBefore(str, idx) + 1, Len(str))

\* str.chars().take(n).collect()
TakeChars(str, n) == SubSeq(str, 1, IF n < Len(str) THEN n ELSE Len(str))

EndsWith(str, c) == Len(str) > 0 /\ str[Len(str)] = c

NoneIdx == -1

\* str.find(c), the byte index of the first occurrence: RFind searching from the
\* wrong end.
FindFirst(str, c) ==
    IF c \notin Range(str) THEN NoneIdx
    ELSE LET k == CHOOSE k \in 1..Len(str) :
                      str[k] = c /\ \A j \in 1..(k-1) : str[j] # c
         IN  PrefixBytes(str, k - 1)

\* str.rfind(c): the byte index of the last occurrence of c, or None.
RFind(str, c) ==
    IF c \notin Range(str) THEN NoneIdx
    ELSE LET k == CHOOSE k \in 1..Len(str) :
                      str[k] = c /\ \A j \in (k+1)..Len(str) : str[j] # c
         IN  PrefixBytes(str, k - 1)

\* str.split_at_checked(idx).map(|(w, _)| w).unwrap_or(str)
SplitAtCheckedFirst(str, idx) ==
    IF IsCharBoundary(str, idx) THEN SubSeq(str, 1, CharsBefore(str, idx)) ELSE str

ensure_complete_name(n) ==
    IF EndsWith(n, Marker) THEN TakeChars(n, Bytes(n) - 1)
    ELSE IF RFind(n, Space) # NoneIdx THEN SplitAtCheckedFirst(n, RFind(n, Space))
    ELSE n

(***************************************************************************)
(* build_chain                                                             *)
(***************************************************************************)
Padded(name, ord) == Repeat(Marker, ord) \o ToLowercase(name)

\* chars.windows(n), n >= 1
Windows(chars, n) ==
    IF Len(chars) < n THEN <<>>
    ELSE [k \in 1..(Len(chars) - n + 1) |-> SubSeq(chars, k, k + n - 1)]

\* Push with a set-like entry: a next-character already recorded for the key is
\* not recorded again.
PushDedup(ch, key, next) ==
    IF key \in DOMAIN ch
    THEN IF next \in Range(ch[key]) THEN ch ELSE [ch EXCEPT ![key] = Append(@, next)]
    ELSE ch @@ (key :> <<next>>)

\* chain.entry(key).or_default().push(next)
Push(ch, key, next) ==
    IF key \in DOMAIN ch
    THEN [ch EXCEPT ![key] = Append(@, next)]
    ELSE ch @@ (key :> <<next>>)

RECURSIVE AddWindows(_, _, _)
AddWindows(ch, windows, ord) ==
    IF windows = <<>> THEN ch
    ELSE LET w == Head(windows)
         IN  AddWindows(Push(ch, SubSeq(w, 1, ord), w[ord + 1]), Tail(windows), ord)

RECURSIVE AddNames(_, _, _)
AddNames(ch, ns, ord) ==
    IF ns = <<>> THEN ch
    ELSE AddNames(AddWindows(ch, Windows(Padded(Head(ns), ord), ord + 1), ord),
                  Tail(ns), ord)

EmptyChain == [k \in {} |-> <<>>]

build_chain(ns, ord) == AddNames(EmptyChain, ns, ord)

(***************************************************************************)
(* Capitalisation helpers.                                                 *)
(***************************************************************************)
\* Capitalize::capitalize_first_only: only the first character is changed.
capitalize_first_only(str) ==
    IF str = <<>> THEN <<>> ELSE <<CharToUppercase(Head(str))>> \o Tail(str)

\* s.capitalize(): the first character upper-cased, the others lower-cased
\* (lib.rs 134-144: "hi Who are you" with an absent separator gives
\* "Hi who are you").
capitalize_string(str) ==
    IF str = <<>> THEN <<>> ELSE <<CharToUppercase(Head(str))>> \o ToLowercase(Tail(str))

MatchAt(str, sp, k) ==
    k + Len(sp) - 1 <= Len(str) /\ SubSeq(str, k, k + Len(sp) - 1) = sp

\* s.splitn(2, sep): only the first occurrence splits.
SplitOnce(str, sp) ==
    IF \E k \in 1..Len(str) : MatchAt(str, sp, k)
    THEN LET k == CHOOSE k \in 1..Len(str) :
                      MatchAt(str, sp, k) /\ \A j \in 1..(k-1) : ~MatchAt(str, sp, j)
         IN  <<SubSeq(str, 1, k - 1), SubSeq(str, k + Len(sp), Len(str))>>
    ELSE <<str>>

\* s.split(sep), sep non-empty: the searcher finds the leftmost match, the
\* piece before it is yielded and the search goes on after the match.
RECURSIVE Split(_, _)
Split(str, sp) ==
    IF \E k \in 1..Len(str) : MatchAt(str, sp, k)
    THEN LET k == CHOOSE k \in 1..Len(str) :
                      MatchAt(str, sp, k) /\ \A j \in 1..(k-1) : ~MatchAt(str, sp, j)
         IN  <<SubSeq(str, 1, k - 1)>> \o Split(SubSeq(str, k + Len(sp), Len(str)), sp)
    ELSE <<str>>

\* itertools join(sep)
RECURSIVE Join(_, _)
Join(pieces, sp) ==
    IF pieces = <<>> THEN <<>>
    ELSE IF Len(pieces) = 1 THEN pieces[1]
    ELSE pieces[1] \o sp \o Join(Tail(pieces), sp)

MapCapitalize(pieces) == [k \in 1..Len(pieces) |-> capitalize_string(pieces[k])]

capitalize_each_substring(str, sp) == Join(MapCapitalize(Split(str, sp)), sp)

(***************************************************************************)
(* Inputs.                                                                 *)
(***************************************************************************)
NameAlphabet == {"^", " ", "a", "A", "e_acute"}
Corpora == Strings(Strings(NameAlphabet, 0, MaxNameLen), 0, MaxNames)

NoStr == <<>>

InitCorpus ==
    /\ names \in Corpora
    /\ order \in 0..MaxOrder
    /\ max_len \in 0..MaxLen
    /\ chain = EmptyChain
    /\ current = NoStr
    /\ result = NoStr
    /\ i = 0
    /\ stop = "none"
    /\ s = NoStr
    /\ sep = NoStr
    /\ pc = "build"
    /\ ret = NoStr

\* Any table: at most MaxKeys contexts of `order` characters, each with at most
\* MaxNexts next-characters (possibly none).
TabAlphabet == {"^", " ", "a", "e_acute", "NUL"}

Tables(ord) ==
    LET keys == Strings(TabAlphabet, ord, ord)
        nexts == Strings(TabAlphabet, 0, MaxNexts)
    IN  UNION {[D -> nexts] : D \in {Range(q) : q \in Strings(keys, 0, MaxKeys)}}

\* generate_name called on any table.
InitTable ==
    /\ names = <<>>
    /\ order \in 1..MaxOrder
    /\ max_len \in 0..MaxLen
    /\ chain \in Tables(order)
    /\ current = Repeat(Marker, order)
    /\ result = NoStr
    /\ i = 0
    /\ stop = "none"
    /\ s = NoStr
    /\ sep = NoStr
    /\ pc = "loop"
    /\ ret = NoStr

\* ensure_complete_name called on any buffer.
BufAlphabet == {"^", " ", "a", "e_acute"}

InitRepair ==
    /\ names = <<>>
    /\ order = 0
    /\ max_len = 0
    /\ chain = EmptyChain
    /\ current = NoStr
    /\ result \in Strings(BufAlphabet, 0, MaxBufLen)
    /\ i = 0
    /\ stop = "none"
    /\ s = NoStr
    /\ sep = NoStr
    /\ pc = "repair"
    /\ ret = NoStr

\* The capitalisation helpers called on any string and non-empty separator.
CapAlphabet == {"h", "H", ";", " "}

InitCap ==
    /\ names = <<>>
    /\ order = 0
    /\ max_len = 0
    /\ chain = EmptyChain
    /\ current = NoStr
    /\ result = NoStr
    /\ i = 0
    /\ stop = "none"
    /\ s \in Strings(CapAlphabet, 0, MaxStrLen)
    /\ sep \in Strings(CapAlphabet, 1, MaxSepLen)
    /\ pc = "cap"
    /\ ret = NoStr

(***************************************************************************)
(* Actions.                                                                *)
(***************************************************************************)
\* let chain = build_chain(names, order); then generate_name's first two lines.
BuildChain ==
    /\ pc = "build"
    /\ chain' = build_chain(names, order)
    /\ current' = Repeat(Marker, order)
    /\ result' = <<>>
    /\ i' = 0
    /\ pc' = "loop"
    /\ UNCHANGED <<names, order, max_len, stop, s, sep, ret>>

\* The inclusive range 0..=max_len.
LoopContinuesInclusive(n, cap) == n <= cap

\* for _ in 0..max_len
LoopContinues(n, cap) == n < cap

IsStopChar(c) == c = Marker \/ c = Nul

\* One iteration of the loop of generate_name.
Step ==
    /\ pc = "loop"
    /\ LoopContinues(i, max_len)
    /\ i' = i + 1
    /\ IF current \in DOMAIN chain
       THEN LET next_chars == chain[current]
            IN  IF Len(next_chars) = 0
                THEN \* generate_range(..0) is 0, get(0) is None
                     /\ stop' = "empty"
                     /\ pc' = "repair"
                     /\ UNCHANGED <<result, current>>
                ELSE \E idx \in 0..(Len(next_chars) - 1) :
                       LET next_char == next_chars[idx + 1]
                       IN  IF IsStopChar(next_char)
                           THEN /\ stop' = "marker"
                                /\ pc' = "repair"
                                /\ UNCHANGED <<result, current>>
                           ELSE /\ result' = Append(result, next_char)
                                /\ IF IsCharBoundary(current, 1)
                                   THEN /\ current' = Append(SliceFrom(current, 1), next_char)
                                        /\ pc' = "loop"
                                        /\ UNCHANGED stop
                                   ELSE \* &current[1..] panics
                                        /\ pc' = "panicked"
                                        /\ stop' = "panic"
                                        /\ UNCHANGED current
       ELSE /\ result' = Append(result, Marker)
            /\ stop' = "absent"
            /\ pc' = "repair"
            /\ UNCHANGED current
    /\ UNCHANGED <<names, order, max_len, chain, s, sep, ret>>

\* The range 0..max_len is exhausted.
LoopExit ==
    /\ pc = "loop"
    /\ ~LoopContinues(i, max_len)
    /\ stop' = "cap"
    /\ pc' = "repair"
    /\ UNCHANGED <<names, order, max_len, chain, current, result, i, s, sep, ret>>

\* ensure_complete_name(result)
Repair ==
    /\ pc = "repair"
    /\ ret' = ensure_complete_name(result)
    /\ pc' = "returned"
    /\ UNCHANGED <<names, order, max_len, chain, current, result, i, stop, s, sep>>

Next == BuildChain \/ Step \/ LoopExit \/ Repair

Spec == InitCorpus /\ [][Next]_vars

CapitalizeString ==
    /\ pc = "cap"
    /\ ret' = capitalize_string(s)
    /\ pc' = "capitalized"
    /\ UNCHANGED <<names, order, max_len, chain, current, result, i, stop, s, sep>>

CapitalizeEachSubstring ==
    /\ pc = "cap"
    /\ ret' = capitalize_each_substring(s, sep)
    /\ pc' = "capitalized_each"
    /\ UNCHANGED <<names, order, max_len, chain, current, result, i, stop, s, sep>>

NextGenerate == Step \/ LoopExit \/ Repair

NextCap == CapitalizeString \/ CapitalizeEachSubstring

SpecTable == InitTable /\ [][NextGenerate]_vars

SpecRepair == InitRepair /\ [][Repair]_vars

SpecCap == InitCap /\ [][NextCap]_vars

(***************************************************************************)
(* The reference table of build_chain, stated on positions: position       *)
(* <<n, j>> is the j-th window of the n-th name.                           *)
(***************************************************************************)
RefPadded(n) == Repeat(Marker, order) \o ToLowercase(names[n])

Positions ==
    {p \in (1..Len(names)) \X (1..MaxNameLen) : p[2] <= Len(ToLowercase(names[p[1]]))}

Ctx(p) == SubSeq(RefPadded(p[1]), p[2], p[2] + order - 1)

Nxt(p) == RefPadded(p[1])[p[2] + order]

Before(p, q) == p[1] < q[1] \/ (p[1] = q[1] /\ p[2] < q[2])

Matching(k) == {p \in Positions : Ctx(p) = k}

RefKeys == {Ctx(p) : p \in Positions}

RefNexts(k) ==
    [r \in 1..Cardinality(Matching(k)) |->
        Nxt(CHOOSE p \in Matching(k) :
                Cardinality({q \in Matching(k) : Before(q, p)}) = r - 1)]

RECURSIVE SumOver(_, _)
SumOver(S, f) ==
    IF S = {} THEN 0
    ELSE LET x == CHOOSE x \in S : TRUE IN Len(f[x]) + SumOver(S \ {x}, f)

\* C2: build_chain returns exactly the reference table: each context maps to
\* the last characters of the windows with that context, in scan order with
\* duplicates kept; every key has `order` characters, no key maps to an empty
\* sequence, and the recorded next-characters number the sum of the lowercased
\* name lengths.
C2_BuildChainIsReference ==
    pc # "build" =>
        /\ DOMAIN chain = RefKeys
        /\ \A k \in DOMAIN chain :
              /\ chain[k] = RefNexts(k)
              /\ Len(k) = order
              /\ chain[k] # <<>>
        /\ SumOver(DOMAIN chain, chain)
             = SumOver(1..Len(names), [n \in 1..Len(names) |-> ToLowercase(names[n])])

\* Two names, an upper-case letter lowered, and a context that recorded the same
\* next-character twice.
C2_Witness ==
    /\ pc = "loop"
    /\ order >= 1
    /\ Len(names) = 2
    /\ \E n \in 1..Len(names) : "A" \in Range(names[n])
    /\ \E k \in DOMAIN chain : Len(chain[k]) = 2 /\ chain[k][1] = chain[k][2]

\* C1: chain-consistency of the returned string: in `order` markers followed
\* by the returned string, every window of order+1 characters (context, next)
\* has next among the table's next-characters for context.
C1_ChainConsistency ==
    (pc = "returned" /\ Len(names) > 0 /\ order >= 1) =>
        LET padded == Repeat(Marker, order) \o ret
        IN  \A k \in 1..Len(ret) :
               LET context == SubSeq(padded, k, k + order - 1)
               IN  /\ context \in DOMAIN chain
                   /\ padded[k + order] \in Range(chain[context])

NoMarkerInCorpus == \A n \in 1..Len(names) : Marker \notin Range(names[n])

\* C5: for a corpus without the marker and order >= 1, the returned string
\* never ends with the marker.
C5_NoTrailingMarker ==
    (pc = "returned" /\ NoMarkerInCorpus /\ order >= 1) => ~EndsWith(ret, Marker)

\* C7: with order = 0 the table's only context is the empty string and
\* generate_name runs to completion without failing.
C7_OrderZeroWellDefined ==
    (order = 0 /\ pc # "build") => (DOMAIN chain \subseteq {<<>>} /\ pc # "panicked")

\* C6: max_len is a hard cap on any table: at most max_len steps, at most
\* max_len characters in the buffer at every step and in the returned string;
\* with max_len = 0 the returned string is empty.
C6_MaxLenHardCap ==
    /\ i <= max_len
    /\ Len(result) <= i
    /\ pc = "returned" => Len(ret) <= max_len
    /\ (pc = "returned" /\ max_len = 0) => ret = <<>>

\* The cap is what stopped the run, and the returned string is as long as it allows.
C6_Witness ==
    /\ pc = "returned"
    /\ stop = "cap"
    /\ max_len = MaxLen
    /\ Len(ret) = max_len

\* The characters generated so far when the run stopped.
Generated == IF stop = "absent" THEN SubSeq(result, 1, Len(result) - 1) ELSE result

\* C10: a run stopped by an absent context and a run stopped by a sampled
\* marker (or NUL) both return the characters generated so far, none dropped.
C10_NaturalStopsIdentical ==
    (pc = "returned" /\ stop \in {"absent", "marker"}) => ret = Generated

\* C3: a buffer ending with the marker is returned with exactly its last
\* character removed.
C3_TrailingMarkerStripped ==
    (pc = "returned" /\ EndsWith(result, Marker)) =>
        ret = SubSeq(result, 1, Len(result) - 1)

LastSpace == CHOOSE k \in 1..Len(result) :
                 result[k] = Space /\ \A j \in (k+1)..Len(result) : result[j] # Space

\* C4: a buffer not ending with the marker is returned cut just before its
\* last space if it has one, and unchanged otherwise.
C4_CutBeforeLastSpace ==
    (pc = "returned" /\ ~EndsWith(result, Marker)) =>
        IF Space \in Range(result)
        THEN ret = SubSeq(result, 1, LastSpace - 1)
        ELSE ret = result

\* Two spaces, a two-byte character before the last one, a partial word after it.
C4_Witness ==
    /\ pc = "returned"
    /\ result = <<Space, "e_acute", Space, "a">>
    /\ ret = <<Space, "e_acute">>

\* C9 as stated: the first character upper-cased, all others unchanged.
C9_RestUnchanged ==
    pc = "capitalized" =>
        /\ Len(ret) = Len(s)
        /\ \A k \in 1..Len(s) :
              ret[k] = IF k = 1 THEN CharToUppercase(s[k]) ELSE s[k]

\* C9 (amended): capitalize_string upper-cases the first character and
\* lower-cases all the others; the empty string gives the empty string.
C9_FirstUpperRestLower ==
    pc = "capitalized" =>
        /\ Len(ret) = Len(s)
        /\ \A k \in 1..Len(s) :
              ret[k] = IF k = 1 THEN CharToUppercase(s[k]) ELSE CharToLowercase(s[k])

\* A lower-case first character and an upper-case one after it.
C9_Witness ==
    /\ pc = "capitalized"
    /\ Len(s) >= 2
    /\ s[1] = "h"
    /\ s[2] = "H"
    /\ ret[1] = "H"
    /\ ret[2] = "h"

(***************************************************************************)
(* The pieces of s, stated on positions: an occurrence of sep is taken     *)
(* when no occurrence taken before it overlaps it.                         *)
(***************************************************************************)
Taken ==
    LET taken[k \in 0..Len(s)] ==
            IF k = 0 THEN FALSE
            ELSE /\ MatchAt(s, sep, k)
                 /\ \A j \in 1..(k-1) : j > k - Len(sep) => ~taken[j]
    IN  {k \in 1..Len(s) : taken[k]}

\* The r-th taken occurrence, from the left.
NthTaken(r) == CHOOSE k \in Taken : Cardinality({j \in Taken : j < k}) = r - 1

RefPiece(r) ==
    SubSeq(s,
           IF r = 1 THEN 1 ELSE NthTaken(r - 1) + Len(sep),
           IF r = Cardinality(Taken) + 1 THEN Len(s) ELSE NthTaken(r) - 1)

RefPieces == [r \in 1..(Cardinality(Taken) + 1) |-> RefPiece(r)]

\* C8: capitalize_each_substring(s, sep) is the pieces of s split on every
\* occurrence of sep, each replaced by its capitalize_string, joined with
\* sep; when sep does not occur in s it is capitalize_string(s).
C8_CapitalizeEachPiece ==
    pc = "capitalized_each" =>
        /\ ret = Join([r \in 1..Len(RefPieces) |-> capitalize_string(RefPieces[r])], sep)
        /\ Len(MapCapitalize(Split(s, sep))) = Cardinality(Taken) + 1
        /\ (\A k \in 1..Len(s) : ~MatchAt(s, sep, k)) => ret = capitalize_string(s)

\* Two occurrences of the separator, so three pieces (one of them empty), and
\* a result that differs from the input.
C8_Witness ==
    /\ pc = "capitalized_each"
    /\ Cardinality(Taken) = 2
    /\ s = <<"h", ";", "h", ";">> \/ s = <<";", "h", ";", "h">>
    /\ sep = <<";">>
    /\ ret # s

====
